---------------------------- MODULE Spec2Model ----------------------------
(***************************************************************************)
(* A model of the fault-detecting AES engine of src/aes.c (AES-128 build): *)
(* the GF(2^8) helpers, the Hamming codec, the parity predictors, the      *)
(* compare-and-correct step, the round transforms, the key schedule and    *)
(* the ECB / CBC / CTR drivers.                                            *)
(*                                                                         *)
(* A uint8_t is a number in 0..255.  A state_t / hamstate_t is a tuple of  *)
(* four tuples of four bytes; the C element m[i][j] (byte 4*i+j of the     *)
(* block) is At(m, i, j).  A C byte array a[] is a tuple whose element     *)
(* a[k] is a[k+1].                                                         *)
(***************************************************************************)
EXTENDS Integers, Sequences, FiniteSets, TLC

\* src/aes.c:45-56, the AES128 build
Nb == 4
Nk == 4
Nr == 10
AES_BLOCKLEN == 16

(***************************************************************************)
(* Lookup tables, src/aes.c:81-141                                         *)
(***************************************************************************)
sbox ==
  <<  99, 124, 119, 123, 242, 107, 111, 197,  48,   1, 103,  43, 254, 215, 171, 118,
     202, 130, 201, 125, 250,  89,  71, 240, 173, 212, 162, 175, 156, 164, 114, 192,
     183, 253, 147,  38,  54,  63, 247, 204,  52, 165, 229, 241, 113, 216,  49,  21,
       4, 199,  35, 195,  24, 150,   5, 154,   7,  18, 128, 226, 235,  39, 178, 117,
       9, 131,  44,  26,  27, 110,  90, 160,  82,  59, 214, 179,  41, 227,  47, 132,
      83, 209,   0, 237,  32, 252, 177,  91, 106, 203, 190,  57,  74,  76,  88, 207,
     208, 239, 170, 251,  67,  77,  51, 133,  69, 249,   2, 127,  80,  60, 159, 168,
      81, 163,  64, 143, 146, 157,  56, 245, 188, 182, 218,  33,  16, 255, 243, 210,
     205,  12,  19, 236,  95, 151,  68,  23, 196, 167, 126,  61, 100,  93,  25, 115,
      96, 129,  79, 220,  34,  42, 144, 136,  70, 238, 184,  20, 222,  94,  11, 219,
     224,  50,  58,  10,  73,   6,  36,  92, 194, 211, 172,  98, 145, 149, 228, 121,
     231, 200,  55, 109, 141, 213,  78, 169, 108,  86, 244, 234, 101, 122, 174,   8,
     186, 120,  37,  46,  28, 166, 180, 198, 232, 221, 116,  31,  75, 189, 139, 138,
     112,  62, 181, 102,  72,   3, 246,  14,  97,  53,  87, 185, 134, 193,  29, 158,
     225, 248, 152,  17, 105, 217, 142, 148, 155,  30, 135, 233, 206,  85,  40, 223,
     140, 161, 137,  13, 191, 230,  66, 104,  65, 153,  45,  15, 176,  84, 187,  22 >>

rsbox ==
  <<  82,   9, 106, 213,  48,  54, 165,  56, 191,  64, 163, 158, 129, 243, 215, 251,
     124, 227,  57, 130, 155,  47, 255, 135,  52, 142,  67,  68, 196, 222, 233, 203,
      84, 123, 148,  50, 166, 194,  35,  61, 238,  76, 149,  11,  66, 250, 195,  78,
       8,  46, 161, 102,  40, 217,  36, 178, 118,  91, 162,  73, 109, 139, 209,  37,
     114, 248, 246, 100, 134, 104, 152,  22, 212, 164,  92, 204,  93, 101, 182, 146,
     108, 112,  72,  80, 253, 237, 185, 218,  94,  21,  70,  87, 167, 141, 157, 132,
     144, 216, 171,   0, 140, 188, 211,  10, 247, 228,  88,   5, 184, 179,  69,   6,
     208,  44,  30, 143, 202,  63,  15,   2, 193, 175, 189,   3,   1,  19, 138, 107,
      58, 145,  17,  65,  79, 103, 220, 234, 151, 242, 207, 206, 240, 180, 230, 115,
     150, 172, 116,  34, 231, 173,  53, 133, 226, 249,  55, 232,  28, 117, 223, 110,
      71, 241,  26, 113,  29,  41, 197, 137, 111, 183,  98,  14, 170,  24, 190,  27,
     252,  86,  62,  75, 198, 210, 121,  32, 154, 219, 192, 254, 120, 205,  90, 244,
      31, 221, 168,  51, 136,   7, 199,  49, 177,  18,  16,  89,  39, 128, 236,  95,
      96,  81, 127, 169,  25, 181,  74,  13,  45, 229, 122, 159, 147, 201, 156, 239,
     160, 224,  59,  77, 174,  42, 245, 176, 200, 235, 187,  60, 131,  83, 153,  97,
      23,  43,   4, 126, 186, 119, 214,  38, 225, 105,  20,  99,  85,  33,  12, 125 >>

Rcon ==
  << 141,   1,   2,   4,   8,  16,  32,  64, 128,  27,  54 >>

h_rd ==
  <<   2,  14,   9,   5,   3,  11,  14,   0,   8,   3,   7,   1,  15,   3,  13,  10,
       2,   1,  12,  13,  10,  14,   1,  14,   5,  13,   7,   8,  14,  15,  15,   6,
      15,   1,  12,  14,   0,  10,   5,  10,  13,  12,   6,  13,   1,   1,  11,   8,
       5,  13,   8,   8,   7,  10,   6,   6,  11,   3,  12,  13,   7,  13,   9,   4,
      10,   2,  10,  10,   9,  13,   0,  10,   9,  15,   0,  10,  12,  14,   4,   9,
      10,  11,   0,  15,   6,   2,   7,   3,   8,   1,   5,   2,  14,   6,  13,   4,
       8,   2,  14,   9,   4,   5,   6,  10,  12,   4,  13,   0,   4,   4,   0,   3,
       7,   4,  10,  14,  15,  13,   1,   8,   8,  12,  12,   5,  14,  12,   0,   5,
       9,  12,   0,  12,   6,   9,  15,   5,   3,   1,   3,   7,   9,  11,   4,  12,
      12,  15,   8,   4,  11,   2,   2,   5,   2,   1,  13,  11,   9,   5,   7,  15,
       0,   5,  12,   4,   0,   8,   3,   8,  11,   6,   6,   1,   1,   4,   5,   8,
      11,  15,   3,   3,   3,  14,  11,   0,   0,  12,  11,   4,  10,   6,  11,   9,
       0,  11,   0,   7,   2,   2,   1,  14,   9,   7,   7,  12,  13,  11,  11,   8,
       2,   9,   2,   4,   3,  14,   6,   1,  15,  14,  15,  14,   4,   5,   1,   3,
       3,   7,  11,  13,   6,   2,  13,   7,   5,  15,   7,  10,   7,   2,  15,  10,
       0,   9,   6,  15,   6,   8,   7,   5,   9,   8,   9,   2,   4,   1,   3,   6 >>

XorNibble ==
  << <<  0,  1,  2,  3,  4,  5,  6,  7,  8,  9, 10, 11, 12, 13, 14, 15 >>,
     <<  1,  0,  3,  2,  5,  4,  7,  6,  9,  8, 11, 10, 13, 12, 15, 14 >>,
     <<  2,  3,  0,  1,  6,  7,  4,  5, 10, 11,  8,  9, 14, 15, 12, 13 >>,
     <<  3,  2,  1,  0,  7,  6,  5,  4, 11, 10,  9,  8, 15, 14, 13, 12 >>,
     <<  4,  5,  6,  7,  0,  1,  2,  3, 12, 13, 14, 15,  8,  9, 10, 11 >>,
     <<  5,  4,  7,  6,  1,  0,  3,  2, 13, 12, 15, 14,  9,  8, 11, 10 >>,
     <<  6,  7,  4,  5,  2,  3,  0,  1, 14, 15, 12, 13, 10, 11,  8,  9 >>,
     <<  7,  6,  5,  4,  3,  2,  1,  0, 15, 14, 13, 12, 11, 10,  9,  8 >>,
     <<  8,  9, 10, 11, 12, 13, 14, 15,  0,  1,  2,  3,  4,  5,  6,  7 >>,
     <<  9,  8, 11, 10, 13, 12, 15, 14,  1,  0,  3,  2,  5,  4,  7,  6 >>,
     << 10, 11,  8,  9, 14, 15, 12, 13,  2,  3,  0,  1,  6,  7,  4,  5 >>,
     << 11, 10,  9,  8, 15, 14, 13, 12,  3,  2,  1,  0,  7,  6,  5,  4 >>,
     << 12, 13, 14, 15,  8,  9, 10, 11,  4,  5,  6,  7,  0,  1,  2,  3 >>,
     << 13, 12, 15, 14,  9,  8, 11, 10,  5,  4,  7,  6,  1,  0,  3,  2 >>,
     << 14, 15, 12, 13, 10, 11,  8,  9,  6,  7,  4,  5,  2,  3,  0,  1 >>,
     << 15, 14, 13, 12, 11, 10,  9,  8,  7,  6,  5,  4,  3,  2,  1,  0 >> >>
(***************************************************************************)
(* Byte arithmetic                                                         *)
(***************************************************************************)
\* C's ^ on two uint8_t values, nibble by nibble
Xor(a, b) ==
  XorNibble[(a \div 16) + 1][(b \div 16) + 1] * 16
    + XorNibble[(a % 16) + 1][(b % 16) + 1]

Xor4(a, b, c, d) == Xor(Xor(a, b), Xor(c, d))

getSBoxValue(num) == sbox[num + 1]
getSBoxInvert(num) == rsbox[num + 1]
getHBoxValue(num) == h_rd[num + 1]

\* xtime with the reduction constant 0x1d in place of 0x1b
xtime_0x1d(x) == Xor((x * 2) % 256, ((x \div 128) % 2) * 29)

\* ((x<<1) ^ (((x>>7) & 1) * 0x1b)) truncated to uint8_t
xtime(x) == Xor((x * 2) % 256, ((x \div 128) % 2) * 27)

Multiply(x, y) ==
  Xor(Xor(Xor((y % 2) * x,
              ((y \div 2) % 2) * xtime(x)),
          Xor(((y \div 4) % 2) * xtime(xtime(x)),
              ((y \div 8) % 2) * xtime(xtime(xtime(x))))),
      ((y \div 16) % 2) * xtime(xtime(xtime(xtime(x)))))

get_bit(byte, bitnum) == (byte \div (2 ^ bitnum)) % 2

flip_bit(byte, target) == Xor(byte, 2 ^ target)

\* XOR of single bits
BitXor(a, b) == (a + b) % 2

\* hamming_encode whose setone leaves bit zero out
hamming_encode_SetoneShort(given) ==
  LET zero  == get_bit(given, 0)
      one   == get_bit(given, 1)
      two   == get_bit(given, 2)
      three == get_bit(given, 3)
      four  == get_bit(given, 4)
      five  == get_bit(given, 5)
      six   == get_bit(given, 6)
      seven == get_bit(given, 7)
      setzero  == BitXor(BitXor(three, two), BitXor(one, zero))
      setone   == BitXor(BitXor(six, five), four)
      settwo   == BitXor(BitXor(BitXor(seven, five), BitXor(four, two)), one)
      setthree == BitXor(BitXor(BitXor(seven, six), BitXor(four, three)), one)
  IN  setzero + 2 * setone + 4 * settwo + 8 * setthree

hamming_encode(given) ==
  LET zero  == get_bit(given, 0)
      one   == get_bit(given, 1)
      two   == get_bit(given, 2)
      three == get_bit(given, 3)
      four  == get_bit(given, 4)
      five  == get_bit(given, 5)
      six   == get_bit(given, 6)
      seven == get_bit(given, 7)
      setzero  == BitXor(BitXor(three, two), BitXor(one, zero))
      setone   == BitXor(BitXor(six, five), BitXor(four, zero))
      settwo   == BitXor(BitXor(BitXor(seven, five), BitXor(four, two)), one)
      setthree == BitXor(BitXor(BitXor(seven, six), BitXor(four, three)), one)
  IN  setzero + 2 * setone + 4 * settwo + 8 * setthree

(***************************************************************************)
(* 4x4 matrices                                                            *)
(***************************************************************************)
At(m, i, j) == m[i + 1][j + 1]

Mat(F(_, _)) ==
  << << F(0, 0), F(0, 1), F(0, 2), F(0, 3) >>,
     << F(1, 0), F(1, 1), F(1, 2), F(1, 3) >>,
     << F(2, 0), F(2, 1), F(2, 2), F(2, 3) >>,
     << F(3, 0), F(3, 1), F(3, 2), F(3, 3) >> >>

Cols(F(_)) == << F(0), F(1), F(2), F(3) >>

\* the cast of a 16-byte block to state_t, and back
ToState(block) == Mat(LAMBDA i, j : block[4 * i + j + 1])
FromState(m) == m[1] \o m[2] \o m[3] \o m[4]

(***************************************************************************)
(* Corrector, src/aes.c:281-358                                            *)
(***************************************************************************)
\* the parity positions x in 3..0 where ((diff >> x) % 2) == 0
Zeros(diff) == {x \in 0..3 : (diff \div (2 ^ x)) % 2 = 0}

Highest(S) == IF S = {} THEN -1 ELSE CHOOSE x \in S : \A y \in S : y <= x

\* the first and the second such position met walking x = 3, 2, 1, 0
Pone(diff) == Highest(Zeros(diff))
Ptwo(diff) == Highest(Zeros(diff) \ {Pone(diff)})

\* the chain with the bit numbers of the (3, 1) and (2, 1) entries swapped
FlipByTable_Swapped(byte, pone, ptwo) ==
  IF pone = 3 /\ ptwo = 2 THEN flip_bit(byte, 0)
  ELSE IF pone = 3 /\ ptwo = 1 THEN flip_bit(byte, 3)
  ELSE IF pone = 3 /\ ptwo = 0 THEN flip_bit(byte, 5)
  ELSE IF pone = 2 /\ ptwo = 1 THEN flip_bit(byte, 2)
  ELSE IF pone = 2 /\ ptwo = 0 THEN flip_bit(byte, 6)
  ELSE IF pone = 1 /\ ptwo = 0 THEN flip_bit(byte, 7)
  ELSE IF pone = 1 /\ ptwo = -1 THEN flip_bit(byte, 1)
  ELSE IF pone = 0 /\ ptwo = -1 THEN flip_bit(byte, 4)
  ELSE byte

\* the if / else-if chain of lines 314-345
FlipByTable(byte, pone, ptwo) ==
  IF pone = 3 /\ ptwo = 2 THEN flip_bit(byte, 0)
  ELSE IF pone = 3 /\ ptwo = 1 THEN flip_bit(byte, 2)
  ELSE IF pone = 3 /\ ptwo = 0 THEN flip_bit(byte, 5)
  ELSE IF pone = 2 /\ ptwo = 1 THEN flip_bit(byte, 3)
  ELSE IF pone = 2 /\ ptwo = 0 THEN flip_bit(byte, 6)
  ELSE IF pone = 1 /\ ptwo = 0 THEN flip_bit(byte, 7)
  ELSE IF pone = 1 /\ ptwo = -1 THEN flip_bit(byte, 1)
  ELSE IF pone = 0 /\ ptwo = -1 THEN flip_bit(byte, 4)
  ELSE byte

CorrectCell(byte, diff) ==
  IF diff = 0 THEN byte ELSE FlipByTable(byte, Pone(diff), Ptwo(diff))

correct_state(state, hamstate, pcode) ==
  Mat(LAMBDA c, r :
        CorrectCell(At(state, c, r), Xor(At(hamstate, c, r), At(pcode, c, r))))

encode_state(state) == Mat(LAMBDA j, i : hamming_encode(At(state, j, i)))

(***************************************************************************)
(* Parity predictors, src/aes.c:372-469                                    *)
(***************************************************************************)
predictAddKey(round, RoundKey, pcode) ==
  Mat(LAMBDA i, j :
        Xor(At(pcode, i, j),
            hamming_encode(RoundKey[(round * Nb * 4) + (i * Nb) + j + 1])))

predictSub(state) == Mat(LAMBDA j, i : getHBoxValue(At(state, j, i)))

\* predictShift that leaves row 3 where it is
predictShift_Row3Kept(pcode) ==
  << << At(pcode, 0, 0), At(pcode, 1, 1), At(pcode, 2, 2), At(pcode, 0, 3) >>,
     << At(pcode, 1, 0), At(pcode, 2, 1), At(pcode, 3, 2), At(pcode, 1, 3) >>,
     << At(pcode, 2, 0), At(pcode, 3, 1), At(pcode, 0, 2), At(pcode, 2, 3) >>,
     << At(pcode, 3, 0), At(pcode, 0, 1), At(pcode, 1, 2), At(pcode, 3, 3) >> >>

predictShift(pcode) ==
  << << At(pcode, 0, 0), At(pcode, 1, 1), At(pcode, 2, 2), At(pcode, 3, 3) >>,
     << At(pcode, 1, 0), At(pcode, 2, 1), At(pcode, 3, 2), At(pcode, 0, 3) >>,
     << At(pcode, 2, 0), At(pcode, 3, 1), At(pcode, 0, 2), At(pcode, 1, 3) >>,
     << At(pcode, 3, 0), At(pcode, 0, 1), At(pcode, 1, 2), At(pcode, 2, 3) >> >>

\* lines 429-432 for one column c
PredictMixCol(s0, s1, s2, s3) ==
  << Xor4(hamming_encode(xtime(s0)), hamming_encode(Multiply(s1, 3)),
          hamming_encode(s2), hamming_encode(s3)),
     Xor4(hamming_encode(s0), hamming_encode(xtime(s1)),
          hamming_encode(Multiply(s2, 3)), hamming_encode(s3)),
     Xor4(hamming_encode(s0), hamming_encode(s1),
          hamming_encode(xtime(s2)), hamming_encode(Multiply(s3, 3))),
     Xor4(hamming_encode(Multiply(s0, 3)), hamming_encode(s1),
          hamming_encode(s2), hamming_encode(xtime(s3))) >>

predictMixCols(state) ==
  Cols(LAMBDA c : PredictMixCol(At(state, c, 0), At(state, c, 1),
                                At(state, c, 2), At(state, c, 3)))

(***************************************************************************)
(* Compare-and-correct, src/aes.c:471-549.  The re-encoding of the state   *)
(* after correct_state is inside a comment (lines 512-536), so the second  *)
(* memcmp reads the same two matrices as the first.  mismatch is TRUE when   *)
(* the first memcmp differs (line 509 prints), exit when exit(2) is        *)
(* reached.                                                                *)
(***************************************************************************)
\* compareCodes whose memcmp calls take the size of a 4-byte pointer, so
\* that only the first column of the matrices is compared
compareCodes_SizeofPointer(state, hamstate, pcode) ==
  IF hamstate[1] # pcode[1]
    THEN [state |-> correct_state(state, hamstate, pcode),
          hamstate |-> hamstate, pcode |-> pcode, mismatch |-> TRUE,
          exit |-> (hamstate[1] # pcode[1])]
    ELSE [state |-> state, hamstate |-> hamstate, pcode |-> pcode,
          mismatch |-> FALSE, exit |-> FALSE]

compareCodes(state, hamstate, pcode) ==
  IF hamstate # pcode
    THEN [state |-> correct_state(state, hamstate, pcode),
          hamstate |-> hamstate, pcode |-> pcode, mismatch |-> TRUE,
          exit |-> (hamstate # pcode)]
    ELSE [state |-> state, hamstate |-> hamstate, pcode |-> pcode,
          mismatch |-> FALSE, exit |-> FALSE]

\* the tail shared by the four forward transforms:
\* encode_state(state, hamstate); compareCodes(state, hamstate, pcode, ..)
EncodeAndCompare(state, pcode) ==
  compareCodes(state, encode_state(state), pcode)

(***************************************************************************)
(* Key schedule, src/aes.c:552-623 (the AES256 branch is compiled out)     *)
(***************************************************************************)
\* the word i of the schedule, from the words before it (lines 569-621)
NextWord(RoundKey, i) ==
  LET k  == (i - 1) * 4
      kk == (i - Nk) * 4
      \* RotWord, SubWord and the round constant when i % Nk == 0
      tempa == IF i % Nk = 0
                 THEN << Xor(getSBoxValue(RoundKey[k + 2]), Rcon[(i \div Nk) + 1]),
                         getSBoxValue(RoundKey[k + 3]),
                         getSBoxValue(RoundKey[k + 4]),
                         getSBoxValue(RoundKey[k + 1]) >>
                 ELSE << RoundKey[k + 1], RoundKey[k + 2],
                         RoundKey[k + 3], RoundKey[k + 4] >>
  IN  << Xor(RoundKey[kk + 1], tempa[1]), Xor(RoundKey[kk + 2], tempa[2]),
         Xor(RoundKey[kk + 3], tempa[3]), Xor(RoundKey[kk + 4], tempa[4]) >>

RECURSIVE ExpandWords(_, _)
ExpandWords(RoundKey, i) ==
  IF i >= Nb * (Nr + 1) THEN RoundKey
  ELSE CHOOSE out \in {ExpandWords(rk \o NextWord(rk, i), i + 1) :
                         rk \in {RoundKey}} : TRUE

KeyExpansion(Key) == ExpandWords(SubSeq(Key, 1, Nk * 4), Nk)

(***************************************************************************)
(* Round transforms, src/aes.c:643-806.  Each forward transform runs its   *)
(* predictor, mutates the state, re-encodes it and compares; the result is *)
(* [state, hamstate, pcode, exit].                                         *)
(***************************************************************************)
XorRoundKey(round, state, RoundKey) ==
  Mat(LAMBDA i, j :
        Xor(At(state, i, j), RoundKey[(round * Nb * 4) + (i * Nb) + j + 1]))

AddRoundKey(round, state, RoundKey, pcode) ==
  EncodeAndCompare(XorRoundKey(round, state, RoundKey),
                   predictAddKey(round, RoundKey, pcode))

SubstituteBytes(state) == Mat(LAMBDA j, i : getSBoxValue(At(state, j, i)))

SubBytes(state, pcode) ==
  EncodeAndCompare(SubstituteBytes(state), predictSub(state))

RotateRows(state) ==
  << << At(state, 0, 0), At(state, 1, 1), At(state, 2, 2), At(state, 3, 3) >>,
     << At(state, 1, 0), At(state, 2, 1), At(state, 3, 2), At(state, 0, 3) >>,
     << At(state, 2, 0), At(state, 3, 1), At(state, 0, 2), At(state, 1, 3) >>,
     << At(state, 3, 0), At(state, 0, 1), At(state, 1, 2), At(state, 2, 3) >> >>

ShiftRows(state, pcode) ==
  EncodeAndCompare(RotateRows(state), predictShift(pcode))

\* lines 731-736 for one column; Tmp is the XOR of the column
MixColumnWith(Tmp, s0, s1, s2, s3) ==
  << Xor(s0, Xor(xtime(Xor(s0, s1)), Tmp)),
     Xor(s1, Xor(xtime(Xor(s1, s2)), Tmp)),
     Xor(s2, Xor(xtime(Xor(s2, s3)), Tmp)),
     Xor(s3, Xor(xtime(Xor(s3, s0)), Tmp)) >>

MixColumn(s0, s1, s2, s3) == MixColumnWith(Xor4(s0, s1, s2, s3), s0, s1, s2, s3)

MixAllColumns(state) ==
  Cols(LAMBDA i : MixColumn(At(state, i, 0), At(state, i, 1),
                            At(state, i, 2), At(state, i, 3)))

MixColumns(state, pcode) ==
  EncodeAndCompare(MixAllColumns(state), predictMixCols(state))

InvMixColumn(a, b, c, d) ==
  << Xor4(Multiply(a, 14), Multiply(b, 11), Multiply(c, 13), Multiply(d, 9)),
     Xor4(Multiply(a, 9), Multiply(b, 14), Multiply(c, 11), Multiply(d, 13)),
     Xor4(Multiply(a, 13), Multiply(b, 9), Multiply(c, 14), Multiply(d, 11)),
     Xor4(Multiply(a, 11), Multiply(b, 13), Multiply(c, 9), Multiply(d, 14)) >>

InvMixColumns(state) ==
  Cols(LAMBDA i : InvMixColumn(At(state, i, 0), At(state, i, 1),
                               At(state, i, 2), At(state, i, 3)))

InvSubBytes(state) == Mat(LAMBDA j, i : getSBoxInvert(At(state, j, i)))

\* InvShiftRows that rotates the rows to the left, as ShiftRows does
InvShiftRows_Left(state) == RotateRows(state)

InvShiftRows(state) ==
  << << At(state, 0, 0), At(state, 3, 1), At(state, 2, 2), At(state, 1, 3) >>,
     << At(state, 1, 0), At(state, 0, 1), At(state, 3, 2), At(state, 2, 3) >>,
     << At(state, 2, 0), At(state, 1, 1), At(state, 0, 2), At(state, 3, 3) >>,
     << At(state, 3, 0), At(state, 2, 1), At(state, 1, 2), At(state, 0, 3) >> >>

(***************************************************************************)
(* InvCipher, src/aes.c:840-863, run as one call; it stops at the first    *)
(* AddRoundKey that reaches exit(2).  pcode is declared at line 844 and    *)
(* never initialised, and no inverse transform updates it; garbage stands  *)
(* for the bytes the stack holds at entry.                                 *)
(***************************************************************************)
RECURSIVE InvCipherRounds(_, _, _)
InvCipherRounds(k, RoundKey, round) ==
  CHOOSE out \in
    { IF d.exit \/ round = 0 THEN d
      ELSE InvCipherRounds([d EXCEPT !.state = InvMixColumns(d.state)],
                           RoundKey, round - 1) :
      d \in {AddRoundKey(round, InvSubBytes(InvShiftRows(k.state)), RoundKey,
                         k.pcode)} } : TRUE

InvCipher(state, RoundKey, garbage) ==
  CHOOSE out \in
    { IF first.exit THEN first ELSE InvCipherRounds(first, RoundKey, Nr - 1) :
      first \in {AddRoundKey(Nr, state, RoundKey, garbage)} } : TRUE

(***************************************************************************)
(* Cipher, src/aes.c:810-837, run as one call (the drivers below run it    *)
(* one transform per step; this is the same code as a function of the      *)
(* block).  It stops at the first transform that reaches exit(2).          *)
(***************************************************************************)
\* r when r reached exit(2), otherwise what F makes of r
Then(r, F(_)) == CHOOSE out \in {IF v.exit THEN v ELSE F(v) : v \in {r}} : TRUE

\* the loop of lines 825-834 from the given round on, k the result of the
\* AddRoundKey before it, and line 836
RECURSIVE CipherRounds(_, _, _)
CipherRounds(k, RoundKey, round) ==
  Then(SubBytes(k.state, k.pcode), LAMBDA a :
  Then(ShiftRows(a.state, a.pcode), LAMBDA b :
    IF round = Nr
      THEN AddRoundKey(Nr, b.state, RoundKey, b.pcode)
      ELSE Then(MixColumns(b.state, b.pcode), LAMBDA c :
           Then(AddRoundKey(round, c.state, RoundKey, c.pcode), LAMBDA d :
                CipherRounds(d, RoundKey, round + 1)))))

Cipher(state, RoundKey) ==
  Then(AddRoundKey(0, state, RoundKey, encode_state(state)), LAMBDA k :
       CipherRounds(k, RoundKey, 1))

(***************************************************************************)
(* Inputs.  The NIST SP 800-38A vectors of the file header (src/aes.c:6-25)*)
(* and generated keys, IVs and data.                                       *)
(***************************************************************************)
NumKeys == 1     \* generated keys besides the NIST key
NumBlocks == 1   \* generated 16-byte blocks besides the NIST blocks
NumIvs == 1      \* generated IVs besides the boundary counters
MaxCalls == 2    \* encrypt / decrypt / xcrypt calls in one behaviour

Bytes16(F(_)) ==
  << F(0), F(1), F(2), F(3), F(4), F(5), F(6), F(7),
     F(8), F(9), F(10), F(11), F(12), F(13), F(14), F(15) >>

NistKey ==
  << 43, 126, 21, 22, 40, 174, 210, 166, 171, 247, 21, 136, 9, 207, 79, 60 >>

NistPlain ==
  << << 107, 193, 190, 226, 46, 64, 159, 150, 233, 61, 126, 17, 115, 147, 23, 42 >>,
     << 174, 45, 138, 87, 30, 3, 172, 156, 158, 183, 111, 172, 69, 175, 142, 81 >>,
     << 48, 200, 28, 70, 163, 92, 228, 17, 229, 251, 193, 25, 26, 10, 82, 239 >>,
     << 246, 159, 36, 69, 223, 79, 155, 23, 173, 43, 65, 123, 230, 108, 55, 16 >> >>

NistCipher ==
  << << 58, 215, 123, 180, 13, 122, 54, 96, 168, 158, 202, 243, 36, 102, 239, 151 >>,
     << 245, 211, 213, 133, 3, 185, 105, 157, 231, 133, 137, 90, 150, 253, 186, 175 >>,
     << 67, 177, 205, 127, 89, 142, 206, 35, 136, 27, 0, 227, 237, 3, 6, 136 >>,
     << 123, 12, 120, 94, 39, 232, 173, 63, 130, 35, 32, 113, 4, 114, 93, 212 >> >>

GenKey(k) == Bytes16(LAMBDA i : (29 + 83 * k + 151 * i + 7 * i * i * k) % 256)
GenBlock(k) == Bytes16(LAMBDA i : (201 + 57 * k + 113 * i + 5 * i * i * k) % 256)
GenIv(k) == Bytes16(LAMBDA i : (90 + 41 * k + 59 * i + 3 * i * i * k) % 256)

Keys == {NistKey} \cup {GenKey(k) : k \in 1..NumKeys}
Blocks == {NistPlain[n] : n \in 1..4} \cup {GenBlock(k) : k \in 1..NumBlocks}

ZeroBlock == Bytes16(LAMBDA i : 0)
ZeroMat == ToState(ZeroBlock)

\* What the never-initialised pcode of InvCipher may hold at entry: the
\* Hamming codes of the block (the bytes a preceding Cipher frame leaves
\* when it ended on the same block), all zero bytes, or all 0xFF bytes.
GarbageKinds == {"match", "zero", "ones"}
Garbage(kind, state) ==
  IF kind = "match" THEN encode_state(state)
  ELSE IF kind = "zero" THEN ZeroMat
  ELSE Mat(LAMBDA i, j : 255)

(***************************************************************************)
(* State                                                                   *)
(***************************************************************************)
VARIABLES
  ctx,       \* struct AES_ctx: [RoundKey, Iv]
  buf,       \* the caller's buffer
  length,    \* the length the caller passes with buf
  op,        \* the API function in progress, "none" between calls
  i,         \* the byte offset of the driver's loop
  pc,        \* "idle", "Cipher", the transform Cipher runs next, "return",
             \* or "exit" after exit(2)
  round,     \* Cipher's round
  state,     \* the block Cipher works on (in ECB and CBC it aliases buf)
  hamstate,  \* Cipher's hamstate
  mismatch,  \* history: the last compareCodes call of Cipher printed
             \* "Codes do not agree in ..., before correction"
  pcode,     \* Cipher's pcode
  left,      \* the calls the caller has still to make
  calls,     \* history: the calls made, with the IV and the buffer at entry
  fault,     \* history: the bit flip injected into the run, if any
  shadow     \* history: the block as the transforms alone would have left it

vars == << ctx, buf, length, op, i, pc, round, state, hamstate, mismatch, pcode,
           left,
           calls, fault, shadow >>

NoFault == [kind |-> "none"]

\* AES_init_ctx_iv, src/aes.c:630-634
AES_init_ctx_iv(key, iv) == [RoundKey |-> KeyExpansion(key), Iv |-> iv]

Call(name) == [op |-> name, Iv |-> ctx.Iv, buf |-> buf]

\* the 16 bytes of a at byte offset k, and a with them replaced
Block(a, k) == SubSeq(a, k + 1, k + AES_BLOCKLEN)
WriteBlock(a, k, block) ==
  SubSeq(a, 1, k) \o block \o SubSeq(a, k + AES_BLOCKLEN + 1, Len(a))

InitLocals ==
  /\ op = "none"
  /\ i = 0
  /\ pc = "idle"
  /\ round = 0
  /\ state = ZeroMat
  /\ hamstate = ZeroMat
  /\ mismatch = FALSE
  /\ pcode = ZeroMat
  /\ calls = << >>
  /\ fault = NoFault
  /\ shadow = ZeroMat

InitECB ==
  /\ \E key \in Keys : ctx = AES_init_ctx_iv(key, ZeroBlock)
  /\ buf \in Blocks
  /\ length = AES_BLOCKLEN
  /\ left = MaxCalls
  /\ InitLocals

(***************************************************************************)
(* Cipher, src/aes.c:810-837, one transform per step.  EnterCipher is the  *)
(* call of Cipher on a block that a driver makes.                          *)
(***************************************************************************)
EnterCipher(block) ==
  /\ state' = ToState(block)
  /\ shadow' = ToState(block)
  /\ round' = 0
  /\ pc' = "Cipher"
  /\ UNCHANGED << hamstate, mismatch, pcode, fault >>

\* src/aes.c:812-815
CipherEntry ==
  /\ pc = "Cipher"
  /\ pcode' = encode_state(state)
  /\ pc' = "AddRoundKey"
  /\ UNCHANGED << ctx, buf, length, op, i, round, state, hamstate, mismatch, calls, left,
                  fault, shadow >>

\* the effect of the forward transform result r on the block and the two
\* matrices; ECB and CBC run Cipher in place on the caller's buffer
Transformed(r) ==
  /\ state' = r.state
  /\ hamstate' = r.hamstate
  /\ mismatch' = r.mismatch
  /\ pcode' = r.pcode
  /\ buf' = IF op \in {"ECB_encrypt", "CBC_encrypt"}
              THEN WriteBlock(buf, i, FromState(r.state))
              ELSE buf
  /\ UNCHANGED << ctx, length, op, i, calls, left, fault >>

\* src/aes.c:818, 833, 836
CipherAddRoundKey ==
  /\ pc = "AddRoundKey"
  /\ \E r \in {AddRoundKey(round, state, ctx.RoundKey, pcode)} :
       /\ Transformed(r)
       /\ pc' = IF r.exit THEN "exit"
                ELSE IF round = Nr THEN "return" ELSE "SubBytes"
       /\ round' = IF r.exit \/ round = Nr THEN round ELSE round + 1
  /\ shadow' = XorRoundKey(round, shadow, ctx.RoundKey)

\* src/aes.c:827
CipherSubBytes ==
  /\ pc = "SubBytes"
  /\ \E r \in {SubBytes(state, pcode)} :
       /\ Transformed(r)
       /\ pc' = IF r.exit THEN "exit" ELSE "ShiftRows"
  /\ shadow' = SubstituteBytes(shadow)
  /\ UNCHANGED round

\* the step without the test of round == Nr (lines 829-831): MixColumns
\* follows ShiftRows in the last round too
CipherShiftRows_AlwaysMix ==
  /\ pc = "ShiftRows"
  /\ \E r \in {ShiftRows(state, pcode)} :
       /\ Transformed(r)
       /\ pc' = IF r.exit THEN "exit" ELSE "MixColumns"
  /\ shadow' = RotateRows(shadow)
  /\ UNCHANGED round

\* src/aes.c:828-831
CipherShiftRows ==
  /\ pc = "ShiftRows"
  /\ \E r \in {ShiftRows(state, pcode)} :
       /\ Transformed(r)
       /\ pc' = IF r.exit THEN "exit"
                ELSE IF round = Nr THEN "AddRoundKey" ELSE "MixColumns"
  /\ shadow' = RotateRows(shadow)
  /\ UNCHANGED round

\* src/aes.c:832
CipherMixColumns ==
  /\ pc = "MixColumns"
  /\ \E r \in {MixColumns(state, pcode)} :
       /\ Transformed(r)
       /\ pc' = IF r.exit THEN "exit" ELSE "AddRoundKey"
  /\ shadow' = MixAllColumns(shadow)
  /\ UNCHANGED round

CipherStep ==
  \/ CipherEntry
  \/ CipherAddRoundKey
  \/ CipherSubBytes
  \/ CipherShiftRows
  \/ CipherMixColumns

(***************************************************************************)
(* ECB, src/aes.c:872-882.  AES_ECB_decrypt is one step: InvCipher either  *)
(* returns or reaches exit(2).                                             *)
(***************************************************************************)
AES_ECB_encrypt ==
  /\ pc = "idle"
  /\ left > 0
  /\ left' = left - 1
  /\ calls' = Append(calls, Call("ECB_encrypt"))
  /\ op' = "ECB_encrypt"
  /\ i' = 0
  /\ EnterCipher(Block(buf, 0))
  /\ UNCHANGED << ctx, buf, length >>

ECB_encrypt_return ==
  /\ pc = "return"
  /\ op = "ECB_encrypt"
  /\ pc' = "idle"
  /\ op' = "none"
  /\ UNCHANGED << ctx, buf, length, i, round, state, hamstate, mismatch, pcode, calls, left,
                  fault, shadow >>

AES_ECB_decrypt ==
  /\ pc = "idle"
  /\ left > 0
  /\ left' = left - 1
  /\ \E kind \in GarbageKinds :
       \E r \in {InvCipher(ToState(Block(buf, 0)), ctx.RoundKey,
                           Garbage(kind, ToState(Block(buf, 0))))} :
         /\ buf' = WriteBlock(buf, 0, FromState(r.state))
         /\ pc' = IF r.exit THEN "exit" ELSE "idle"
  /\ calls' = Append(calls, Call("ECB_decrypt"))
  /\ UNCHANGED << ctx, length, op, i, round, state, hamstate, mismatch, pcode, fault,
                  shadow >>

NextECB ==
  \/ AES_ECB_encrypt
  \/ CipherStep
  \/ ECB_encrypt_return
  \/ AES_ECB_decrypt

SpecECB == InitECB /\ [][NextECB]_vars

(***************************************************************************)
(* CBC, src/aes.c:894-931.  The caller's allocation holds whole blocks     *)
(* (Len(buf) is length rounded up to a multiple of 16), so every block the *)
(* loops touch lies inside it.                                             *)
(***************************************************************************)
CbcLengths == {0, 8, 16, 32}

GenBuffer(n) == [k \in 1..n |-> (67 + 29 * k + 3 * k * k) % 256]

Ivs == {GenIv(k) : k \in 1..NumIvs} \cup {ZeroBlock}

RoundUp(n) == ((n + AES_BLOCKLEN - 1) \div AES_BLOCKLEN) * AES_BLOCKLEN

InitCBC ==
  /\ \E key \in Keys, iv \in Ivs : ctx = AES_init_ctx_iv(key, iv)
  /\ length \in CbcLengths
  /\ buf = GenBuffer(RoundUp(length))
  /\ left = MaxCalls
  /\ InitLocals

\* AES_ctx_set_iv whose memcpy has ctx->RoundKey as its destination
AES_ctx_set_iv_IntoRoundKey ==
  /\ pc = "idle"
  /\ \E iv \in Ivs :
       ctx' = [ctx EXCEPT !.RoundKey =
                 iv \o SubSeq(ctx.RoundKey, AES_BLOCKLEN + 1, Len(ctx.RoundKey))]
  /\ UNCHANGED << buf, length, op, i, pc, round, state, hamstate, mismatch, pcode,
                  calls, left, fault, shadow >>

\* AES_ctx_set_iv, src/aes.c:635-638
AES_ctx_set_iv ==
  /\ pc = "idle"
  /\ \E iv \in Ivs : ctx' = [ctx EXCEPT !.Iv = iv]
  /\ UNCHANGED << buf, length, op, i, pc, round, state, hamstate, mismatch, pcode,
                  calls, left, fault, shadow >>

XorWithIv(block, Iv) == Bytes16(LAMBDA k : Xor(block[k + 1], Iv[k + 1]))

\* src/aes.c:903-910: the first pass of the loop up to the call of Cipher,
\* or line 915 at once when the loop body never runs
AES_CBC_encrypt_buffer ==
  /\ pc = "idle"
  /\ left > 0
  /\ left' = left - 1
  /\ calls' = Append(calls, Call("CBC_encrypt"))
  /\ i' = 0
  /\ IF 0 < length
       THEN \E block \in {XorWithIv(Block(buf, 0), ctx.Iv)} :
              /\ buf' = WriteBlock(buf, 0, block)
              /\ EnterCipher(block)
              /\ op' = "CBC_encrypt"
       ELSE UNCHANGED << buf, op, pc, round, state, hamstate, mismatch, pcode, fault,
                         shadow >>
  /\ UNCHANGED << ctx, length >>

\* the return of AES_CBC_encrypt_buffer without the memcpy of line 915
CBC_encrypt_next_IvNotStored ==
  /\ pc = "return"
  /\ op = "CBC_encrypt"
  /\ i' = i + AES_BLOCKLEN
  /\ IF i + AES_BLOCKLEN < length
       THEN \E block \in {XorWithIv(Block(buf, i + AES_BLOCKLEN),
                                    Block(buf, i))} :
              /\ buf' = WriteBlock(buf, i + AES_BLOCKLEN, block)
              /\ EnterCipher(block)
              /\ UNCHANGED << ctx, op >>
       ELSE /\ pc' = "idle"
            /\ op' = "none"
            /\ UNCHANGED << ctx, buf, round, state, hamstate, mismatch, pcode,
                            fault, shadow >>
  /\ UNCHANGED << length, calls, left >>

\* src/aes.c:911-915 after Cipher has returned, and the next pass up to
\* the call of Cipher; Iv points at the block just encrypted
CBC_encrypt_next ==
  /\ pc = "return"
  /\ op = "CBC_encrypt"
  /\ i' = i + AES_BLOCKLEN
  /\ IF i + AES_BLOCKLEN < length
       THEN \E block \in {XorWithIv(Block(buf, i + AES_BLOCKLEN),
                                    Block(buf, i))} :
              /\ buf' = WriteBlock(buf, i + AES_BLOCKLEN, block)
              /\ EnterCipher(block)
              /\ UNCHANGED << ctx, op >>
       ELSE /\ ctx' = [ctx EXCEPT !.Iv = Block(buf, i)]
            /\ pc' = "idle"
            /\ op' = "none"
            /\ UNCHANGED << buf, round, state, hamstate, mismatch, pcode, fault,
                            shadow >>
  /\ UNCHANGED << length, calls, left >>

\* src/aes.c:903-916 as one run from byte offset k on, Iv being the local
\* pointer of the loop: the result is the buffer, the bytes Iv points at
\* when line 915 copies them into the context, and whether exit(2) was
\* reached
RECURSIVE CbcEncryptFrom(_, _, _, _, _)
CbcEncryptFrom(b, Iv, k, len, RoundKey) ==
  IF k >= len THEN [buf |-> b, Iv |-> Iv, exit |-> FALSE]
  ELSE CHOOSE out \in
         { IF r.exit
             THEN [buf |-> WriteBlock(b, k, FromState(r.state)),
                   Iv |-> Iv, exit |-> TRUE]
             ELSE CbcEncryptFrom(WriteBlock(b, k, FromState(r.state)),
                                 FromState(r.state), k + AES_BLOCKLEN, len,
                                 RoundKey) :
           r \in {Cipher(ToState(XorWithIv(Block(b, k), Iv)), RoundKey)} } : TRUE

\* src/aes.c:922-929 from byte offset k on; the result is the buffer, the
\* context IV and whether exit(2) was reached
RECURSIVE CbcDecryptFrom(_, _, _, _, _, _)
\* the loop with i <= length as its condition
CbcDecryptFrom_LoopLE(b, Iv, k, len, RoundKey, kind) ==
  IF k > len THEN [buf |-> b, Iv |-> Iv, exit |-> FALSE]
  ELSE CHOOSE out \in
         { IF r.exit
             THEN [buf |-> WriteBlock(b, k, FromState(r.state)),
                   Iv |-> Iv, exit |-> TRUE]
             ELSE CbcDecryptFrom(
                    WriteBlock(b, k, XorWithIv(FromState(r.state), Iv)),
                    Block(b, k), k + AES_BLOCKLEN, len, RoundKey, kind) :
           r \in {InvCipher(ToState(Block(b, k)), RoundKey,
                            Garbage(kind, ToState(Block(b, k))))} } : TRUE

CbcDecryptFrom(b, Iv, k, len, RoundKey, kind) ==
  IF k >= len THEN [buf |-> b, Iv |-> Iv, exit |-> FALSE]
  ELSE CHOOSE out \in
         { IF r.exit
             THEN [buf |-> WriteBlock(b, k, FromState(r.state)),
                   Iv |-> Iv, exit |-> TRUE]
             ELSE CbcDecryptFrom(
                    WriteBlock(b, k, XorWithIv(FromState(r.state), Iv)),
                    Block(b, k), k + AES_BLOCKLEN, len, RoundKey, kind) :
           r \in {InvCipher(ToState(Block(b, k)), RoundKey,
                            Garbage(kind, ToState(Block(b, k))))} } : TRUE

AES_CBC_decrypt_buffer ==
  /\ pc = "idle"
  /\ left > 0
  /\ left' = left - 1
  /\ calls' = Append(calls, Call("CBC_decrypt"))
  /\ \E kind \in GarbageKinds :
       \E r \in {CbcDecryptFrom(buf, ctx.Iv, 0, length, ctx.RoundKey, kind)} :
         /\ buf' = r.buf
         /\ ctx' = [ctx EXCEPT !.Iv = r.Iv]
         /\ pc' = IF r.exit THEN "exit" ELSE "idle"
  /\ UNCHANGED << length, op, i, round, state, hamstate, mismatch, pcode, fault,
                  shadow >>

NextCBC ==
  \/ AES_ctx_set_iv
  \/ AES_CBC_encrypt_buffer
  \/ CipherStep
  \/ CBC_encrypt_next
  \/ AES_CBC_decrypt_buffer

SpecCBC == InitCBC /\ [][NextCBC]_vars

(***************************************************************************)
(* CTR, src/aes.c:940-972                                                  *)
(***************************************************************************)
CtrLengths == {0, 1, 16, 17, 33}

\* a counter whose last byte is 0xFF
CarryIv == << 0, 0, 0, 0, 0, 0, 0, 0, 0, 0, 0, 0, 0, 0, 0, 255 >>

CtrIvs == {GenIv(k) : k \in 1..NumIvs} \cup {CarryIv}

InitCTR ==
  /\ \E key \in Keys, iv \in CtrIvs : ctx = AES_init_ctx_iv(key, iv)
  /\ length \in CtrLengths
  /\ buf = GenBuffer(length)
  /\ left = MaxCalls
  /\ InitLocals

AES_ctx_set_counter ==
  /\ pc = "idle"
  /\ \E iv \in CtrIvs : ctx' = [ctx EXCEPT !.Iv = iv]
  /\ UNCHANGED << buf, length, op, i, pc, round, state, hamstate, mismatch, pcode,
                  calls, left, fault, shadow >>

\* the increment loop with break in place of continue at line 961: a 0xFF
\* byte is cleared and the carry is dropped
IncrementFrom_NoCarry(Iv, bi) ==
  IF Iv[bi + 1] = 255 THEN [Iv EXCEPT ![bi + 1] = 0]
  ELSE [Iv EXCEPT ![bi + 1] = Iv[bi + 1] + 1]

\* lines 955-965: the increment loop from byte bi down
RECURSIVE IncrementFrom(_, _)
IncrementFrom(Iv, bi) ==
  CHOOSE out \in
    { IF bi < 0 THEN v
      ELSE IF v[bi + 1] = 255
        THEN IncrementFrom([v EXCEPT ![bi + 1] = 0], bi - 1)
        ELSE [v EXCEPT ![bi + 1] = v[bi + 1] + 1] : v \in {Iv} } : TRUE

IncrementIv(Iv) == IncrementFrom(Iv, AES_BLOCKLEN - 1)

\* line 970 with + in place of ^
XorStream_Add(b, k, n, buffer) ==
  [m \in 1..Len(b) |->
     IF m > k /\ m <= k + n THEN (b[m] + buffer[m - k]) % 256 ELSE b[m]]

\* line 970 for the n bytes at offset k: buf[k+bi] ^ buffer[bi], bi < n
XorStream(b, k, n, buffer) ==
  [m \in 1..Len(b) |->
     IF m > k /\ m <= k + n THEN Xor(b[m], buffer[m - k]) ELSE b[m]]

Min(a, b) == IF a < b THEN a ELSE b

\* lines 946-952: the first pass up to the call of Cipher on the copy of
\* the counter, or nothing when length is 0
AES_CTR_xcrypt_buffer ==
  /\ pc = "idle"
  /\ left > 0
  /\ left' = left - 1
  /\ calls' = Append(calls, Call("CTR_xcrypt"))
  /\ i' = 0
  /\ IF 0 < length
       THEN /\ EnterCipher(ctx.Iv)
            /\ op' = "CTR_xcrypt"
       ELSE UNCHANGED << op, pc, round, state, hamstate, mismatch, pcode, fault,
                         shadow >>
  /\ UNCHANGED << ctx, buf, length >>

\* the step with the increment of lines 955-965 made only when the
\* keystream block is used up whole
CTR_xcrypt_next_TailNotCounted ==
  /\ pc = "return"
  /\ op = "CTR_xcrypt"
  /\ \E n \in {Min(AES_BLOCKLEN, length - i)} :
       \E next \in {IF n = AES_BLOCKLEN THEN IncrementIv(ctx.Iv) ELSE ctx.Iv} :
         /\ buf' = XorStream(buf, i, n, FromState(state))
         /\ ctx' = [ctx EXCEPT !.Iv = next]
         /\ i' = i + n
         /\ IF i + n < length
              THEN /\ EnterCipher(next)
                   /\ UNCHANGED op
              ELSE /\ pc' = "idle"
                   /\ op' = "none"
                   /\ UNCHANGED << round, state, hamstate, mismatch, pcode,
                                   fault, shadow >>
  /\ UNCHANGED << length, calls, left >>

\* lines 954-970 after Cipher has returned: the counter is incremented,
\* the keystream block is XORed into the next (up to 16) bytes, and the
\* loop either ends or reaches the next call of Cipher
CTR_xcrypt_next ==
  /\ pc = "return"
  /\ op = "CTR_xcrypt"
  /\ \E n \in {Min(AES_BLOCKLEN, length - i)}, next \in {IncrementIv(ctx.Iv)} :
       /\ buf' = XorStream(buf, i, n, FromState(state))
       /\ ctx' = [ctx EXCEPT !.Iv = next]
       /\ i' = i + n
       /\ IF i + n < length
            THEN /\ EnterCipher(next)
                 /\ UNCHANGED op
            ELSE /\ pc' = "idle"
                 /\ op' = "none"
                 /\ UNCHANGED << round, state, hamstate, mismatch, pcode, fault,
                                 shadow >>
  /\ UNCHANGED << length, calls, left >>

\* lines 940-972 as one run from byte offset k on: each pass of the outer
\* loop that finds bi == AES_BLOCKLEN encrypts a copy of the counter,
\* increments the counter and XORs up to 16 bytes; the result is the
\* buffer, the counter and whether exit(2) was reached
RECURSIVE CtrXcryptFrom(_, _, _, _, _)
CtrXcryptFrom(b, Iv, k, len, RoundKey) ==
  IF k >= len THEN [buf |-> b, Iv |-> Iv, exit |-> FALSE]
  ELSE CHOOSE out \in
         { IF r.exit
             THEN [buf |-> b, Iv |-> Iv, exit |-> TRUE]
             ELSE CtrXcryptFrom(
                    XorStream(b, k, Min(AES_BLOCKLEN, len - k),
                              FromState(r.state)),
                    IncrementIv(Iv), k + AES_BLOCKLEN, len, RoundKey) :
           r \in {Cipher(ToState(Iv), RoundKey)} } : TRUE

NextCTR ==
  \/ AES_ctx_set_counter
  \/ AES_CTR_xcrypt_buffer
  \/ CipherStep
  \/ CTR_xcrypt_next

SpecCTR == InitCTR /\ [][NextCTR]_vars

(***************************************************************************)
(* Single-event upsets during AES_ECB_encrypt: one flip per run, injected  *)
(* between two transforms of Cipher.                                       *)
(***************************************************************************)
MaxFaultCell == 1   \* faults hit the cells FaultCell(0) .. FaultCell(MaxFaultCell)

FaultCell(k) == [c |-> k % 4, r |-> (k + (k \div 4)) % 4]
FaultCells == {FaultCell(k) : k \in 0..MaxFaultCell}

BetweenTransforms ==
  /\ op = "ECB_encrypt"
  /\ pc \in {"AddRoundKey", "SubBytes", "ShiftRows", "MixColumns"}
  /\ fault = NoFault

SetCell(m, c, r, v) == [m EXCEPT ![c + 1][r + 1] = v]

FlipState(cell, bits) ==
  \E s \in {SetCell(state, cell.c, cell.r,
                    Xor(At(state, cell.c, cell.r), bits))} :
    /\ state' = s
    /\ buf' = WriteBlock(buf, i, FromState(s))
    /\ UNCHANGED << ctx, length, op, i, pc, round, hamstate, mismatch, pcode, calls, left,
                    shadow >>

FlipStateBit ==
  /\ BetweenTransforms
  /\ \E cell \in FaultCells, n \in 0..7 :
       /\ FlipState(cell, 2 ^ n)
       /\ fault' = [kind |-> "state", bits |-> {n}, cell |-> cell,
                    before |-> pc, round |-> round]

FlipTwoStateBits ==
  /\ BetweenTransforms
  /\ \E cell \in FaultCells, n \in 0..7, m \in 0..7 :
       /\ n < m
       /\ FlipState(cell, 2 ^ n + 2 ^ m)
       /\ fault' = [kind |-> "state", bits |-> {n, m}, cell |-> cell,
                    before |-> pc, round |-> round]

FlipPcodeBit ==
  /\ BetweenTransforms
  /\ \E cell \in FaultCells, n \in 0..7 :
       /\ pcode' = SetCell(pcode, cell.c, cell.r,
                           flip_bit(At(pcode, cell.c, cell.r), n))
       /\ fault' = [kind |-> "pcode", bits |-> {n}, cell |-> cell,
                    before |-> pc, round |-> round]
  /\ UNCHANGED << ctx, buf, length, op, i, pc, round, state, hamstate, mismatch, calls, left,
                  shadow >>

FaultBlocks == {GenBlock(k) : k \in 1..NumBlocks}

InitFault ==
  /\ \E key \in Keys : ctx = AES_init_ctx_iv(key, ZeroBlock)
  /\ buf \in FaultBlocks
  /\ length = AES_BLOCKLEN
  /\ left = 1
  /\ InitLocals

NextStateFault ==
  \/ AES_ECB_encrypt
  \/ CipherStep
  \/ ECB_encrypt_return
  \/ FlipStateBit
  \/ FlipTwoStateBits

SpecStateFault == InitFault /\ [][NextStateFault]_vars

NextPcodeFault ==
  \/ AES_ECB_encrypt
  \/ CipherStep
  \/ ECB_encrypt_return
  \/ FlipPcodeBit

SpecPcodeFault == InitFault /\ [][NextPcodeFault]_vars

(***************************************************************************)
(* One AES_CTR_xcrypt_buffer call from each counter that ends in k bytes   *)
(* 0xFF, k = 0 .. 16.                                                      *)
(***************************************************************************)
TailFF(k) ==
  Bytes16(LAMBDA n : IF n >= AES_BLOCKLEN - k THEN 255 ELSE (17 * n + 3) % 255)

CounterIvs == {TailFF(k) : k \in 0..AES_BLOCKLEN} \cup {CarryIv}

CounterLengths == {17, 32}

InitCounter ==
  /\ \E key \in Keys, iv \in CounterIvs : ctx = AES_init_ctx_iv(key, iv)
  /\ length \in CounterLengths
  /\ buf = GenBuffer(length)
  /\ left = 1
  /\ InitLocals

NextCounter ==
  \/ AES_CTR_xcrypt_buffer
  \/ CipherStep
  \/ CTR_xcrypt_next

SpecCounter == InitCounter /\ [][NextCounter]_vars

(***************************************************************************)
(* The whole API on one context and one 16-byte buffer: any two calls in   *)
(* any order, AES_ctx_set_iv between them, and one upset of a state byte   *)
(* during the second call.                                                 *)
(***************************************************************************)
ApiLengths == {0, AES_BLOCKLEN}

InitAPI ==
  /\ \E key \in Keys : ctx = AES_init_ctx_iv(key, ZeroBlock)
  /\ length \in ApiLengths
  /\ buf = GenBuffer(AES_BLOCKLEN)
  /\ left = 2
  /\ InitLocals

\* bit 0 of state[0][0] flips between two transforms of the last call
UpsetInLastCall ==
  /\ BetweenTransforms
  /\ left = 0
  /\ FlipState(FaultCell(0), 1)
  /\ fault' = [kind |-> "state", bits |-> {0}, cell |-> FaultCell(0),
               before |-> pc, round |-> round]

NextAPI ==
  \/ AES_ctx_set_iv
  \/ AES_ECB_encrypt
  \/ ECB_encrypt_return
  \/ AES_ECB_decrypt
  \/ AES_CBC_encrypt_buffer
  \/ CBC_encrypt_next
  \/ AES_CBC_decrypt_buffer
  \/ AES_CTR_xcrypt_buffer
  \/ CTR_xcrypt_next
  \/ CipherStep
  \/ UpsetInLastCall

SpecAPI == InitAPI /\ [][NextAPI]_vars

(***************************************************************************)
(* compareCodes at line 510, about to call correct_state: one state byte   *)
(* differs in one bit from the byte pcode was predicted for.  The faulty   *)
(* cell takes every byte value and every bit position.                     *)
(***************************************************************************)
\* 16 bytes that differ from cell to cell, the first of them b
SpreadFrom(b) == ToState(Bytes16(LAMBDA n : (b + 37 * n) % 256))

InitCorrector ==
  /\ \E key \in Keys : ctx = AES_init_ctx_iv(key, ZeroBlock)
  /\ buf = ZeroBlock
  /\ length = AES_BLOCKLEN
  /\ left = 0
  /\ op = "ECB_encrypt"
  /\ i = 0
  /\ pc = "correct_state"
  /\ round = 1
  /\ mismatch = TRUE
  /\ calls = << >>
  /\ \E b \in 0..255, n \in 0..7, cell \in FaultCells :
       /\ shadow = SpreadFrom(b)
       /\ pcode = encode_state(shadow)
       /\ state = SetCell(shadow, cell.c, cell.r,
                          flip_bit(At(shadow, cell.c, cell.r), n))
       /\ hamstate = encode_state(state)
       /\ fault = [kind |-> "state", bits |-> {n}, cell |-> cell,
                   before |-> "ShiftRows", round |-> 1]

\* line 510
CorrectState ==
  /\ pc = "correct_state"
  /\ state' = correct_state(state, hamstate, pcode)
  /\ pc' = "corrected"
  /\ UNCHANGED << ctx, buf, length, op, i, round, hamstate, mismatch, pcode,
                  left, calls, fault, shadow >>

NextCorrector == CorrectState

SpecCorrector == InitCorrector /\ [][NextCorrector]_vars

(***************************************************************************)
(* One forward transform on a block, then its inverse on the result.  The  *)
(* blocks put every byte value into every cell, and every single bit into  *)
(* every cell (these span all blocks under XOR, over which ShiftRows,      *)
(* MixColumns and their inverses are linear).                              *)
(***************************************************************************)
\* the block whose only set bit is bit n of byte k
UnitState(k, n) == ToState(Bytes16(LAMBDA m : IF m = k THEN 2 ^ n ELSE 0))

RoundStates ==
  {SpreadFrom(b) : b \in 0..255}
    \cup {UnitState(k, n) : k \in 0..(AES_BLOCKLEN - 1), n \in 0..7}

InitRound ==
  /\ \E key \in Keys : ctx = AES_init_ctx_iv(key, ZeroBlock)
  /\ buf = ZeroBlock
  /\ length = AES_BLOCKLEN
  /\ left = 0
  /\ op = "none"
  /\ i = 0
  /\ pc = "block"
  /\ round = 1
  /\ mismatch = FALSE
  /\ calls = << >>
  /\ fault = NoFault
  /\ state \in RoundStates
  /\ shadow = state
  /\ hamstate = encode_state(state)
  /\ pcode = encode_state(state)

\* the forward transform with result r has run; shadow keeps the block it
\* was given
Forward(r, name) ==
  /\ pc = "block"
  /\ Transformed(r)
  /\ pc' = name
  /\ UNCHANGED << round, shadow >>

Inverse(s, after, name) ==
  /\ pc = after
  /\ state' = s
  /\ pc' = name
  /\ UNCHANGED << ctx, buf, length, op, i, round, hamstate, mismatch, pcode,
                  left, calls, fault, shadow >>

RoundSubBytes == \E r \in {SubBytes(state, pcode)} : Forward(r, "SubBytes")
RoundShiftRows == \E r \in {ShiftRows(state, pcode)} : Forward(r, "ShiftRows")
RoundMixColumns == \E r \in {MixColumns(state, pcode)} : Forward(r, "MixColumns")
RoundInvSubBytes == Inverse(InvSubBytes(state), "SubBytes", "InvSubBytes")
RoundInvShiftRows == Inverse(InvShiftRows(state), "ShiftRows", "InvShiftRows")
RoundInvMixColumns == Inverse(InvMixColumns(state), "MixColumns", "InvMixColumns")

NextRound ==
  \/ RoundSubBytes
  \/ RoundShiftRows
  \/ RoundMixColumns
  \/ RoundInvSubBytes
  \/ RoundInvShiftRows
  \/ RoundInvMixColumns

SpecRound == InitRound /\ [][NextRound]_vars

(***************************************************************************)
(* A stream encrypted in two chunks: two AES_CTR_xcrypt_buffer calls on    *)
(* one context, src/aes.c:940-972, the caller passing the first n1 bytes   *)
(* of the stream to the first call and the following n2 bytes to the       *)
(* second.  Nothing touches the counter between the calls.                 *)
(***************************************************************************)
StreamFirst == {16, 17, 32}
StreamSecond == {1, 17}

InitStream ==
  /\ \E key \in Keys, iv \in CtrIvs : ctx = AES_init_ctx_iv(key, iv)
  /\ length \in StreamFirst
  /\ buf = GenBuffer(length)
  /\ left = 2
  /\ InitLocals

\* the caller's arguments of the second call, line 940: buf points at the
\* next n2 bytes of the stream and length is n2
StreamNextChunk ==
  /\ pc = "idle"
  /\ Len(calls) = 1
  /\ i = length
  /\ \E n2 \in StreamSecond :
       /\ length' = n2
       /\ buf' = SubSeq(GenBuffer(length + n2), length + 1, length + n2)
  /\ i' = 0
  /\ UNCHANGED << ctx, op, pc, round, state, hamstate, mismatch, pcode, calls,
                  left, fault, shadow >>

NextStream ==
  \/ AES_CTR_xcrypt_buffer
  \/ CipherStep
  \/ CTR_xcrypt_next
  \/ StreamNextChunk

SpecStream == InitStream /\ [][NextStream]_vars

(***************************************************************************)
(* Properties                                                              *)
(***************************************************************************)
KeyOf(c) == SubSeq(c.RoundKey, 1, Nk * 4)

\* the first call of the behaviour is AES_ECB_encrypt and no later call
\* has been made
FirstEncrypt == Len(calls) = 1 /\ calls[1].op = "ECB_encrypt"

\* C1: under the NIST key, AES_ECB_encrypt of each of the four NIST
\* plaintext blocks never reaches exit(2), and when it has returned the
\* buffer holds the corresponding NIST ciphertext block.
C1_NistVectors ==
  \A n \in 1..4 :
    (FirstEncrypt /\ KeyOf(ctx) = NistKey /\ calls[1].buf = NistPlain[n])
      => /\ pc # "exit"
         /\ pc = "idle" => buf = NistCipher[n]

C1_Witness ==
  /\ FirstEncrypt
  /\ KeyOf(ctx) = NistKey
  /\ calls[1].buf = NistPlain[4]
  /\ pc = "idle"
  /\ buf = NistCipher[4]

\* C2: AES_ECB_decrypt applied, under the same context, to the buffer that
\* AES_ECB_encrypt produced from P returns and leaves the buffer equal to P.
C2_EcbRoundTrip ==
  (Len(calls) = 2 /\ calls[1].op = "ECB_encrypt" /\ calls[2].op = "ECB_decrypt")
    => /\ pc = "idle"
       /\ buf = calls[1].buf

\* C3: for a length that is a multiple of 16, AES_CBC_decrypt_buffer
\* entered with the IV that AES_CBC_encrypt_buffer was entered with, on the
\* buffer that call produced, returns and leaves the buffer as it was
\* before the encryption.
C3_CbcRoundTrip ==
  ( /\ Len(calls) = 2
    /\ calls[1].op = "CBC_encrypt"
    /\ calls[2].op = "CBC_decrypt"
    /\ calls[2].Iv = calls[1].Iv
    /\ length % AES_BLOCKLEN = 0 )
    => /\ pc = "idle"
       /\ buf = calls[1].buf

\* the second of two AES_CTR_xcrypt_buffer calls, entered with the counter
\* the first was entered with
SecondXcrypt ==
  /\ Len(calls) = 2
  /\ calls[1].op = "CTR_xcrypt"
  /\ calls[2].op = "CTR_xcrypt"
  /\ calls[2].Iv = calls[1].Iv

\* C4: two AES_CTR_xcrypt_buffer calls on the same buffer, each entered
\* with the same key and the same counter, never reach exit(2), and when
\* the second has returned the buffer is what it was before the first.
C4_CtrInvolution ==
  /\ pc # "exit"
  /\ (SecondXcrypt /\ pc = "idle") => buf = calls[1].buf

C4_Witness ==
  /\ SecondXcrypt
  /\ pc = "idle"
  /\ length = 33
  /\ calls[2].buf # calls[1].buf
  /\ buf = calls[1].buf

\* Cipher is between two transforms, or has returned or aborted, and the
\* last thing it ran was a round transform
AfterTransform ==
  \/ pc \in {"SubBytes", "ShiftRows", "MixColumns", "return", "exit"}
  \/ pc = "AddRoundKey" /\ round >= 1

\* C5: in a run of Cipher without fault, after each of AddRoundKey,
\* SubBytes, ShiftRows and MixColumns the Hamming codes of the 16 state
\* bytes (as recomputed, and as the transform stored them in hamstate)
\* equal the predicted codes cell by cell, and exit(2) is not reached.
C5_HammingInvariant ==
  (op = "ECB_encrypt" /\ AfterTransform)
    => /\ pc # "exit"
       /\ ~mismatch
       /\ hamstate = pcode
       /\ encode_state(state) = pcode

C5_Witness ==
  /\ op = "ECB_encrypt"
  /\ KeyOf(ctx) # NistKey
  /\ pc = "return"
  /\ round = Nr
  /\ hamstate = pcode
  /\ encode_state(state) = pcode
  /\ pcode # ZeroMat

OneStateBit == fault.kind = "state" /\ Cardinality(fault.bits) = 1
TwoStateBits == fault.kind = "state" /\ Cardinality(fault.bits) = 2

\* the flip came right after SubBytes, ShiftRows or MixColumns returned
AfterSubShiftMix ==
  \/ fault.before \in {"ShiftRows", "MixColumns"}
  \/ fault.before = "AddRoundKey" /\ fault.round >= 1

\* C6: when one bit of one state byte is flipped right after SubBytes,
\* ShiftRows or MixColumns has returned, Cipher does not reach exit(2), the
\* byte is restored by the time the next transform has run, and the block
\* Cipher returns is the one the run without the flip returns.
C6_SingleBitRepaired ==
  (OneStateBit /\ AfterSubShiftMix)
    => /\ pc # "exit"
       /\ (pc # fault.before \/ round # fault.round) => state = shadow

\* C7: when two bits of one state byte are flipped between two transforms,
\* Cipher never returns a block that differs from the block of the run
\* without the flip.
C7_NoGarbledOutput ==
  (TwoStateBits /\ pc = "return") => state = shadow

\* Cipher stands right behind the flip: the next step is the transform
\* fault.before of round fault.round
AtFault == fault # NoFault /\ pc = fault.before /\ round = fault.round

\* C8 as stated: after a flip of one bit of one pcode cell between two
\* transforms, the compareCodes call of the next transform finds hamstate
\* and pcode unequal.
C8_AlwaysDetected ==
  [][(fault.kind = "pcode" /\ AtFault) => mismatch']_vars

\* C8 as amended: the compareCodes call of the next transform finds
\* hamstate and pcode unequal exactly when that transform is AddRoundKey or
\* ShiftRows, whose predictors compute the new pcode from the old one;
\* before SubBytes and MixColumns the predictor overwrites pcode from the
\* state and the compare finds the matrices equal.
C8_DetectedUnlessOverwritten ==
  [][(fault.kind = "pcode" /\ AtFault)
       => (mismatch' <=> fault.before \in {"AddRoundKey", "ShiftRows"})]_vars

C8_Witness ==
  /\ fault.kind = "pcode"
  /\ fault.before = "ShiftRows"
  /\ mismatch
  /\ hamstate # pcode

\* the (pone, ptwo) pairs of the corrector's table
CorrectorTable ==
  { << 3, 2 >>, << 3, 1 >>, << 3, 0 >>, << 2, 1 >>, << 2, 0 >>, << 1, 0 >>,
    << 1, -1 >>, << 0, -1 >> }

Syndrome(c, r) == Xor(At(hamstate, c, r), At(pcode, c, r))

\* the last compareCodes found a mismatch, every mismatching cell with a
\* syndrome of the table
MismatchInTable ==
  /\ AfterTransform
  /\ mismatch
  /\ \A c \in 0..3, r \in 0..3 :
       Syndrome(c, r) # 0
         => << Pone(Syndrome(c, r)), Ptwo(Syndrome(c, r)) >> \in CorrectorTable

\* C9: when compareCodes finds a mismatch whose cells all have a syndrome
\* of the corrector table, the state is repaired and Cipher goes on with
\* the next transform: exit(2) is not reached.
C9_CorrectableContinues ==
  (op = "ECB_encrypt" /\ OneStateBit /\ MismatchInTable)
    => /\ pc # "exit"
       /\ state = shadow

LastCall == calls[Len(calls)]

BigEndianSucc(a, b) ==
  \E k \in 0..AES_BLOCKLEN :
    /\ \A j \in (k + 1)..AES_BLOCKLEN : a[j] = 255 /\ b[j] = 0
    /\ k >= 1 => /\ a[k] < 255
                 /\ b[k] = a[k] + 1
                 /\ \A j \in 1..(k - 1) : b[j] = a[j]

\* the counter ...0100
Iv0100 == << 0, 0, 0, 0, 0, 0, 0, 0, 0, 0, 0, 0, 0, 0, 1, 0 >>

\* AES_CTR_xcrypt_buffer has the keystream block of the bytes from offset
\* i on and is about to increment the counter
KeystreamReady == op = "CTR_xcrypt" /\ pc = "return"

\* C11: after each keystream block AES_CTR_xcrypt_buffer increments the
\* counter by one modulo 2^128 as a big-endian number, the carry running
\* from byte 15 towards byte 0 through every 0xFF byte; and the second
\* keystream block of a call entered with the counter ...00FF is the block
\* Cipher makes of the counter ...0100, the first keystream block of a call
\* entered with ...0100.
C11_BigEndianCounter ==
  [][KeystreamReady
       => /\ BigEndianSucc(ctx.Iv, ctx'.Iv)
          /\ (calls[1].Iv = CarryIv /\ i = AES_BLOCKLEN)
               => state = Cipher(ToState(Iv0100), ctx.RoundKey).state]_vars

C11_Witness ==
  /\ KeystreamReady
  /\ calls[1].Iv = CarryIv
  /\ i = AES_BLOCKLEN
  /\ ctx.Iv = Iv0100
  /\ state = Cipher(ToState(Iv0100), ctx.RoundKey).state

\* C12: no step of any API call sequence after the context was initialised,
\* the steps of a call in which compareCodes finds a mismatch and the
\* corrector runs included, changes a byte of the round-key buffer.
C12_RoundKeyFrozen == [][ctx'.RoundKey = ctx.RoundKey]_vars

C12_Witness ==
  /\ Len(calls) = 2
  /\ calls[1].op = "CBC_encrypt"
  /\ fault # NoFault
  /\ mismatch
  /\ state = shadow
  /\ ctx.Iv # ZeroBlock
  /\ ctx.RoundKey = KeyExpansion(KeyOf(ctx))

\* the step is the entry of a call of one of the buffer functions
BufferCallEntered ==
  /\ Len(calls') = Len(calls) + 1
  /\ calls'[Len(calls')].op \in {"CBC_encrypt", "CBC_decrypt", "CTR_xcrypt"}

\* C13: AES_CBC_encrypt_buffer, AES_CBC_decrypt_buffer and
\* AES_CTR_xcrypt_buffer called with length 0 return at once: no block is
\* handed to Cipher or InvCipher, and the buffer, the context IV and the
\* round keys are as they were.
C13_EmptyBufferNoOp ==
  [][(length = 0 /\ BufferCallEntered)
       => /\ pc' = "idle"
          /\ op' = "none"
          /\ buf' = buf
          /\ ctx' = ctx
          /\ state' = state]_vars

C13_Witness ==
  /\ length = 0
  /\ Len(calls) = 2
  /\ calls[1].op = "CTR_xcrypt"
  /\ calls[2].op = "CBC_decrypt"
  /\ calls[2].Iv # ZeroBlock
  /\ pc = "idle"
  /\ buf = calls[1].buf
  /\ ctx.Iv = calls[2].Iv

FaultyByte == At(state, fault.cell.c, fault.cell.r)
GoodByte == At(shadow, fault.cell.c, fault.cell.r)

\* C14: when one state byte is flip_bit(b, n), its observed code is
\* hamming_encode(flip_bit(b, n)) and its predicted code hamming_encode(b),
\* the zero bits of the syndrome give a (pone, ptwo) of the table and
\* correct_state flips bit n and only bit n, so that the byte is b again;
\* the cells whose codes agree keep their bytes.
C14_CorrectorInvertsFlip ==
  /\ pc = "correct_state"
       => /\ \E n \in fault.bits : FaultyByte = flip_bit(GoodByte, n)
          /\ Syndrome(fault.cell.c, fault.cell.r) # 0
          /\ << Pone(Syndrome(fault.cell.c, fault.cell.r)),
                Ptwo(Syndrome(fault.cell.c, fault.cell.r)) >> \in CorrectorTable
  /\ pc = "corrected" => state = shadow

C14_Witness ==
  /\ pc = "corrected"
  /\ fault.bits = {7}
  /\ GoodByte = 255
  /\ FaultyByte = 255
  /\ Syndrome(fault.cell.c, fault.cell.r) # 0

\* the parity of the bits of byte b at the positions S
Parity(b, S) == Cardinality({k \in S : get_bit(b, k) = 1}) % 2

\* p0 = b3^b2^b1^b0, p1 = b6^b5^b4^b0, p2 = b7^b5^b4^b2^b1,
\* p3 = b7^b6^b4^b3^b1, as the number p3 p2 p1 p0
ParityCode(b) ==
  Parity(b, {0, 1, 2, 3}) + 2 * Parity(b, {0, 4, 5, 6})
    + 4 * Parity(b, {1, 2, 4, 5, 7}) + 8 * Parity(b, {1, 3, 4, 6, 7})

\* C15: for every byte b, h_rd[b] is hamming_encode(sbox[b]), which is the
\* four parities p0..p3 of sbox[b], and is at most 0x0F: after SubBytes on
\* a block, every predicted code is the h_rd entry of the byte the cell
\* held and equals the code of the byte the cell holds now.
C15_ParityTable ==
  pc = "SubBytes"
    => /\ ~mismatch
       /\ \A c \in 0..3, r \in 0..3 :
            /\ At(pcode, c, r) = getHBoxValue(At(shadow, c, r))
            /\ At(pcode, c, r) = hamming_encode(getSBoxValue(At(shadow, c, r)))
            /\ At(pcode, c, r) = ParityCode(getSBoxValue(At(shadow, c, r)))
            /\ At(pcode, c, r) <= 15

C15_Witness ==
  /\ pc = "SubBytes"
  /\ At(shadow, 0, 0) = 255
  /\ At(state, 0, 0) = 22
  /\ At(pcode, 0, 0) = ParityCode(22)
  /\ ~mismatch

\* C18: each inverse transform undoes its forward transform: InvSubBytes
\* after the S-box substitution, InvShiftRows after the row rotation and
\* InvMixColumns after the column mixing give back the block the forward
\* transform was given (for InvSubBytes: rsbox[sbox[b]] = b for every byte).
C18_InverseTransforms ==
  /\ pc \in {"InvSubBytes", "InvShiftRows", "InvMixColumns"} => state = shadow
  /\ pc = "SubBytes"
       => \A c \in 0..3, r \in 0..3 :
            getSBoxInvert(At(state, c, r)) = At(shadow, c, r)

C18_Witness ==
  /\ pc = "InvMixColumns"
  /\ state = shadow
  /\ state = SpreadFrom(200)

\* the step of Cipher from pc: the predictor predict of the state and codes
\* before the step gives the new pcode, the state becomes mutated, hamstate
\* is its fresh encoding and is compared with the new pcode, and Cipher
\* goes on at next in round nextRound
TransformStep(predict, mutated, next, nextRound) ==
  /\ pcode' = predict
  /\ state' = mutated
  /\ hamstate' = encode_state(mutated)
  /\ mismatch' = (encode_state(mutated) # predict)
  /\ pc' = next
  /\ round' = nextRound

\* C16: a run of Cipher without fault is encode_state into pcode, then
\* AddRoundKey(0), then SubBytes, ShiftRows, MixColumns, AddRoundKey(k) for
\* k = 1 .. Nr-1 in this order, then SubBytes, ShiftRows, AddRoundKey(Nr)
\* without MixColumns, after which Cipher returns and so does the call.  In
\* every transform the
\* predictor computes pcode from the state and codes the transform was
\* given, and the mutated state is re-encoded and compared with it before
\* the next transform starts.
C16_TransformOrder ==
  [][op = "ECB_encrypt" =>
         /\ pc = "Cipher" =>
              /\ round = 0
              /\ pcode' = encode_state(state)
              /\ state' = state
              /\ pc' = "AddRoundKey"
              /\ round' = 0
         /\ (pc = "AddRoundKey" /\ round < Nr) =>
              TransformStep(predictAddKey(round, ctx.RoundKey, pcode),
                            XorRoundKey(round, state, ctx.RoundKey),
                            "SubBytes", round + 1)
         /\ (pc = "AddRoundKey" /\ round = Nr) =>
              TransformStep(predictAddKey(Nr, ctx.RoundKey, pcode),
                            XorRoundKey(Nr, state, ctx.RoundKey),
                            "return", Nr)
         /\ pc = "SubBytes" =>
              /\ round \in 1..Nr
              /\ TransformStep(predictSub(state), SubstituteBytes(state),
                               "ShiftRows", round)
         /\ (pc = "ShiftRows" /\ round < Nr) =>
              TransformStep(predictShift(pcode), RotateRows(state),
                            "MixColumns", round)
         /\ (pc = "ShiftRows" /\ round = Nr) =>
              TransformStep(predictShift(pcode), RotateRows(state),
                            "AddRoundKey", Nr)
         /\ pc = "MixColumns" =>
              /\ round \in 1..(Nr - 1)
              /\ TransformStep(predictMixCols(state), MixAllColumns(state),
                               "AddRoundKey", round)
         /\ ~mismatch'
         /\ pc' # "exit"
         /\ pc = "return" => pc' = "idle"]_vars

C16_Witness ==
  /\ op = "ECB_encrypt"
  /\ pc = "return"
  /\ round = Nr
  /\ KeyOf(ctx) # NistKey
  /\ state = Cipher(ToState(LastCall.buf), ctx.RoundKey).state

\* the step in which AES_CBC_encrypt_buffer returns from a call on a
\* non-empty buffer of whole blocks
CbcEncryptReturns ==
  /\ op = "CBC_encrypt"
  /\ pc = "return"
  /\ pc' = "idle"
  /\ length > 0
  /\ length % AES_BLOCKLEN = 0

\* the call returning is the second of two AES_CBC_encrypt_buffer calls and
\* was entered with the IV the buffer's last block gave the context
SecondCbcEncrypt ==
  /\ Len(calls) = 2
  /\ calls[1].op = "CBC_encrypt"
  /\ calls[2].op = "CBC_encrypt"
  /\ length >= AES_BLOCKLEN
  /\ calls[2].Iv = Block(calls[2].buf, length - AES_BLOCKLEN)

\* C17: when AES_CBC_encrypt_buffer returns from a non-empty buffer of whole
\* blocks, the context IV is the last ciphertext block of the buffer and the
\* buffer is the CBC encryption of what the call was given; and when that
\* call is the second of two on the same context, the ciphertext of the
\* first followed by the ciphertext of the second is what one call makes
\* of the first plaintext followed by the second, from the first call's IV.
C17_CbcChaining ==
  [][CbcEncryptReturns =>
       /\ ctx'.Iv = Block(buf', length - AES_BLOCKLEN)
       /\ buf' = CbcEncryptFrom(LastCall.buf, LastCall.Iv, 0, length,
                                ctx.RoundKey).buf
       /\ SecondCbcEncrypt =>
            \E whole \in {CbcEncryptFrom(calls[1].buf \o calls[2].buf,
                                         calls[1].Iv, 0, 2 * length,
                                         ctx.RoundKey)} :
              /\ ~whole.exit
              /\ whole.buf = calls[2].buf \o buf'
              /\ whole.Iv = ctx'.Iv]_vars

C17_Witness ==
  /\ SecondCbcEncrypt
  /\ pc = "idle"
  /\ op = "none"
  /\ length = 2 * AES_BLOCKLEN
  /\ calls[1].Iv \in Ivs
  /\ calls[2].Iv \notin Ivs
  /\ ctx.Iv = Block(buf, AES_BLOCKLEN)
  /\ buf # calls[2].buf
  /\ calls[2].buf # calls[1].buf

\* a plus one modulo 2^128, a read as a big-endian number: the last byte
\* that is not 0xFF goes up by one and every byte behind it becomes 0
LastNotFF(a) ==
  IF \A j \in 1..AES_BLOCKLEN : a[j] = 255 THEN 0
  ELSE CHOOSE k \in 1..AES_BLOCKLEN :
         /\ a[k] # 255
         /\ \A j \in (k + 1)..AES_BLOCKLEN : a[j] = 255

PlusOneAt(a, k) ==
  [j \in 1..AES_BLOCKLEN |->
     IF j < k THEN a[j] ELSE IF j = k THEN a[j] + 1 ELSE 0]

RECURSIVE PlusBlocks(_, _)
PlusBlocks(a, m) ==
  IF m = 0 THEN a ELSE PlusBlocks(PlusOneAt(a, LastNotFF(a)), m - 1)

BlocksOf(n) == (n + AES_BLOCKLEN - 1) \div AES_BLOCKLEN

\* the step that XORs the first keystream block of a call, and the step in
\* which the call returns
CtrFirstBlock == op = "CTR_xcrypt" /\ pc = "return" /\ i = 0
CtrReturns == op = "CTR_xcrypt" /\ pc = "return" /\ pc' = "idle"

SecondChunk ==
  /\ Len(calls) = 2
  /\ calls[1].op = "CTR_xcrypt"
  /\ calls[2].op = "CTR_xcrypt"

\* C19: the first byte an AES_CTR_xcrypt_buffer call writes is the first
\* byte it was given XORed with byte 0 of Cipher applied to the counter the
\* call was entered with; when a call of length n returns, the counter is
\* the counter at entry plus ceil(n/16) modulo 2^128 and the buffer is what
\* one run of the loop makes of the input; and when the second of two
\* calls returns and the first had a multiple of 16 bytes, the two outputs
\* one after the other are what a single call makes of the two inputs one
\* after the other from the first call's counter.
C19_FreshKeystreamPerCall ==
  [][/\ CtrFirstBlock =>
          buf'[1] = Xor(LastCall.buf[1],
                        FromState(Cipher(ToState(LastCall.Iv),
                                         ctx.RoundKey).state)[1])
     /\ CtrReturns =>
          /\ ctx'.Iv = PlusBlocks(LastCall.Iv, BlocksOf(length))
          /\ buf' = CtrXcryptFrom(LastCall.buf, LastCall.Iv, 0, length,
                                  ctx.RoundKey).buf
     /\ (CtrReturns /\ SecondChunk /\ Len(calls[1].buf) % AES_BLOCKLEN = 0) =>
          \E single \in {CtrXcryptFrom(calls[1].buf \o calls[2].buf,
                                       calls[1].Iv, 0,
                                       Len(calls[1].buf) + length,
                                       ctx.RoundKey)} :
            /\ ~single.exit
            /\ single.Iv = ctx'.Iv
            /\ single.buf =
                 CtrXcryptFrom(calls[1].buf, calls[1].Iv, 0,
                               Len(calls[1].buf), ctx.RoundKey).buf \o buf'
    ]_vars

C19_Witness ==
  /\ SecondChunk
  /\ pc = "idle"
  /\ op = "none"
  /\ Len(calls[1].buf) = 2 * AES_BLOCKLEN
  /\ calls[1].Iv = CarryIv
  /\ length = AES_BLOCKLEN + 1
  /\ i = length
  /\ ctx.Iv = PlusBlocks(CarryIv, 4)
  /\ buf # calls[2].buf
=============================================================================
